---- MODULE Spec2Model ----
(***************************************************************************)
(* Model of image-base64 (src/src/main.rs): a yew component that reads a   *)
(* selected image file, encodes it to base64, probes its pixel dimensions  *)
(* through an <img> element and shows derived metadata.                    *)
(*                                                                         *)
(* Strings are sequences of one-character strings.  Characters outside     *)
(* ASCII are written by code point: "U+00D7" is the multiplication sign.   *)
(***************************************************************************)
EXTENDS Integers, Sequences, FiniteSets, TLC

(***************************************************************************)
(* Bounds of the model.                                                    *)
(***************************************************************************)
\* uploads (File objects handed to the component) in one run
MaxUploads == 2
\* files in one change event of the file input
MaxBatch == 2
\* sleep futures of the copy button pending at one time
MaxTimers == 2
\* length of the filenames given to get_file_format
MaxNameLen == 3
\* widths and heights given to calculate_aspect_ratio: 0..MaxDim, and the
\* sides of a 1920 x 1080 picture
MaxDim == 8
\* copies made in one run of the specification that counts them
MaxCopies == 2
\* uploads in one run of the specification that counts the copies
MaxCopyUploads == 1

(***************************************************************************)
(* String literals of the source.                                          *)
(***************************************************************************)
\* "加载中..." (main.rs:63, main.rs:65)
Loading == <<"U+52A0", "U+8F7D", "U+4E2D", ".", ".", ".">>
\* "未知" (main.rs:308)
Unknown == <<"U+672A", "U+77E5">>
\* "复制" (main.rs:47, main.rs:140)
CopyLabel == <<"U+590D", "U+5236">>
\* "已复制" (main.rs:129)
CopiedPrefix == <<"U+5DF2", "U+590D", "U+5236">>
\* Option<T>: None and Some(v)
None == [some |-> FALSE]
Some(v) == [some |-> TRUE, val |-> v]
IsSome(o) == o.some

(***************************************************************************)
(* Pure helpers.                                                           *)
(***************************************************************************)
LowerCase == <<"a", "b", "c", "d", "e", "f", "g", "h", "i", "j", "k", "l", "m",
               "n", "o", "p", "q", "r", "s", "t", "u", "v", "w", "x", "y", "z">>
UpperCase == <<"A", "B", "C", "D", "E", "F", "G", "H", "I", "J", "K", "L", "M",
               "N", "O", "P", "Q", "R", "S", "T", "U", "V", "W", "X", "Y", "Z">>

\* char::to_uppercase on the characters of the model: ASCII letters change
\* case, every other character of the model has no upper-case form.
ToUpperChar(c) ==
    IF \E i \in 1..26 : LowerCase[i] = c
    THEN UpperCase[CHOOSE i \in 1..26 : LowerCase[i] = c]
    ELSE c

\* str::to_uppercase (main.rs:307)
to_uppercase(s) == [i \in 1..Len(s) |-> ToUpperChar(s[i])]

\* str::split(sep) as a list (main.rs:305): the pieces between the
\* separators, in order; a string without separator is its own single piece.
RECURSIVE SplitFrom(_, _, _, _)
SplitFrom(s, sep, i, cur) ==
    IF i > Len(s) THEN <<cur>>
    ELSE IF s[i] = sep THEN <<cur>> \o SplitFrom(s, sep, i + 1, <<>>)
    ELSE SplitFrom(s, sep, i + 1, Append(cur, s[i]))

split(s, sep) == SplitFrom(s, sep, 1, <<>>)

\* Iterator::last (main.rs:306): Some(last item), None for no item
last(items) == IF items = <<>> THEN None ELSE Some(items[Len(items)])

\* a get_file_format that keeps the first piece of the name, not the last
get_file_format_first(filename) ==
    LET items == split(filename, ".")
    IN  IF items = <<>> THEN Unknown ELSE to_uppercase(Head(items))

\* str::starts_with (main.rs:171, main.rs:263)
starts_with(s, prefix) ==
    /\ Len(s) >= Len(prefix)
    /\ SubSeq(s, 1, Len(prefix)) = prefix

\* str::splitn(2, sep) collected (main.rs:264): the text before the first
\* sep and everything after it; the whole text when it has no sep
splitn(s, sep) ==
    IF \E i \in 1..Len(s) : s[i] = sep
    THEN LET first == CHOOSE i \in 1..Len(s) :
                          s[i] = sep /\ \A j \in 1..(i - 1) : s[j] # sep
         IN  <<SubSeq(s, 1, first - 1), SubSeq(s, first + 1, Len(s))>>
    ELSE <<s>>

\* fn get_file_format (main.rs:303-309)
get_file_format(filename) ==
    LET ext == last(split(filename, "."))
    IN  IF IsSome(ext) THEN to_uppercase(ext.val) ELSE Unknown

\* gcd with "a = b; b = a % b" in the loop body, the old b not kept
gcd_no_temp(a, b) == IF b # 0 THEN b ELSE a

\* fn gcd (main.rs:316-323), on u32: the loop, one iteration per call
RECURSIVE gcd(_, _)
gcd(a, b) == IF b # 0 THEN gcd(b, a % b) ELSE a

\* the panic of an integer division by zero
DivideByZero == "panic: attempt to divide by zero"

\* fn calculate_aspect_ratio (main.rs:311-314)
calculate_aspect_ratio(width, height) ==
    LET g == gcd(width, height)
    IN  IF g = 0 THEN DivideByZero ELSE <<width \div g, height \div g>>

\* Display of an unsigned integer ("{}")
RECURSIVE Decimal(_)
Decimal(n) ==
    LET d == <<"0", "1", "2", "3", "4", "5", "6", "7", "8", "9">>
    IN  IF n < 10 THEN <<d[n + 1]>> ELSE Append(Decimal(n \div 10), d[(n % 10) + 1])

\* const UNITS (main.rs:287)
UNITS == <<<<"B">>, <<"K", "B">>, <<"M", "B">>, <<"G", "B">>>>

\* the loop of format_size with "size > 1024.0" as its test
RECURSIVE ScaleLoopStrict(_, _, _, _, _)
ScaleLoopStrict(int, c, r, sticky, unit_index) ==
    IF int > 1024 /\ unit_index < Len(UNITS) - 1
    THEN LET num == 100 * (int % 1024) + c
         IN  ScaleLoopStrict(int \div 1024, num \div 1024, num % 1024,
                             sticky \/ r # 0, unit_index + 1)
    ELSE [int |-> int, c |-> c, r |-> r, sticky |-> sticky,
          unit_index |-> unit_index]

\* the while loop of format_size (main.rs:291-294), one iteration per call.
\* A division of an f64 by 1024.0 is exact, so after the loop the value of
\* size is the rational int + frac with 0 <= frac < 1.  The loop state keeps
\* int, and of frac what "{:.2}" needs: c = the whole hundredths of frac,
\* r = the next base-1024 digit of 100 * frac, sticky = something nonzero
\* lies below r.
RECURSIVE ScaleLoop(_, _, _, _, _)
ScaleLoop(int, c, r, sticky, unit_index) ==
    IF int >= 1024 /\ unit_index < Len(UNITS) - 1
    THEN LET num == 100 * (int % 1024) + c
         IN  ScaleLoop(int \div 1024, num \div 1024, num % 1024,
                       sticky \/ r # 0, unit_index + 1)
    ELSE [int |-> int, c |-> c, r |-> r, sticky |-> sticky,
          unit_index |-> unit_index]

\* "{:.2}" of the f64 left by the loop: the nearest hundredth, a tie going
\* to the even one
Fixed2(s) ==
    LET q == 100 * s.int + s.c
        up == \/ s.r > 512
              \/ s.r = 512 /\ s.sticky
              \/ s.r = 512 /\ ~s.sticky /\ q % 2 = 1
        h == IF up THEN q + 1 ELSE q
        frac == h % 100
    IN  Decimal(h \div 100) \o <<".">> \o Decimal(frac \div 10) \o Decimal(frac % 10)

\* fn format_size (main.rs:286-301), for sizes an f64 holds exactly
format_size(size) ==
    LET s == ScaleLoop(size, 0, 0, FALSE, 0)
    IN  IF s.unit_index = 0
        THEN Decimal(s.int) \o <<" ">> \o UNITS[s.unit_index + 1]
        ELSE Fixed2(s) \o <<" ">> \o UNITS[s.unit_index + 1]

\* format_size(high * 1024 + low) with 0 <= low < 1024, which reaches sizes
\* of 2^31 and more: when high > 0 the first iteration of the loop leaves
\* size = high + low / 1024 and unit_index = 1
format_size_parts(high, low) ==
    IF high = 0
    THEN format_size(low)
    ELSE LET num == 100 * low
             s == ScaleLoop(high, num \div 1024, num % 1024, FALSE, 1)
         IN  Fixed2(s) \o <<" ">> \o UNITS[s.unit_index + 1]

\* the alphabet of base64::engine::general_purpose::STANDARD (main.rs:1)
Base64Alphabet ==
    <<"A", "B", "C", "D", "E", "F", "G", "H", "I", "J", "K", "L", "M",
      "N", "O", "P", "Q", "R", "S", "T", "U", "V", "W", "X", "Y", "Z",
      "a", "b", "c", "d", "e", "f", "g", "h", "i", "j", "k", "l", "m",
      "n", "o", "p", "q", "r", "s", "t", "u", "v", "w", "x", "y", "z",
      "0", "1", "2", "3", "4", "5", "6", "7", "8", "9", "+", "/">>

B64(i) == Base64Alphabet[i + 1]

\* STANDARD.encode(bytes) (main.rs:72): 3 bytes to 4 characters, the last
\* group padded with '='
RECURSIVE Base64Encode(_)
Base64Encode(bytes) ==
    IF Len(bytes) = 0 THEN <<>>
    ELSE IF Len(bytes) = 1
    THEN <<B64(bytes[1] \div 4), B64((bytes[1] % 4) * 16), "=", "=">>
    ELSE IF Len(bytes) = 2
    THEN <<B64(bytes[1] \div 4),
           B64((bytes[1] % 4) * 16 + bytes[2] \div 16),
           B64((bytes[2] % 16) * 4), "=">>
    ELSE <<B64(bytes[1] \div 4),
           B64((bytes[1] % 4) * 16 + bytes[2] \div 16),
           B64((bytes[2] % 16) * 4 + bytes[3] \div 64),
           B64(bytes[3] % 64)>>
         \o Base64Encode(SubSeq(bytes, 4, Len(bytes)))

\* format!("{}×{} px", width, height) (main.rs:88)
FormatDimensions(width, height) ==
    Decimal(width) \o <<"U+00D7">> \o Decimal(height) \o <<" ", "p", "x">>

\* format!("{}:{}", ratio.0, ratio.1) (main.rs:91)
FormatRatio(ratio) == Decimal(ratio[1]) \o <<":">> \o Decimal(ratio[2])

\* format!("已复制 {}", size) (main.rs:129)
FormatCopied(size) == CopiedPrefix \o <<" ">> \o size

(***************************************************************************)
(* The files the user can pick.  bytes is the content (File::size is its   *)
(* length); image is what the browser's image decoder makes of the content *)
(* when it is the src of an <img>: the natural width and height, or an     *)
(* error event.  The second file has the name of the first one; the last   *)
(* one is a text file renamed to .png.                                     *)
(***************************************************************************)
Image(w, h) == [ok |-> TRUE, width |-> w, height |-> h]
NoImage == [ok |-> FALSE]

FilePool ==
    { [name |-> <<"a", ".", "p", "n", "g">>, mime |-> "image/png",
       bytes |-> <<137, 80>>, image |-> Image(4, 2)],
      [name |-> <<"a", ".", "p", "n", "g">>, mime |-> "image/png",
       bytes |-> <<137>>, image |-> Image(3, 3)],
      [name |-> <<"b", ".", "j", "p", "g">>, mime |-> "image/jpeg",
       bytes |-> <<255, 216, 255>>, image |-> Image(6, 4)],
      [name |-> <<"t", ".", "p", "n", "g">>, mime |-> "image/png",
       bytes |-> <<104, 105>>, image |-> NoImage] }

\* the batches of one change event
Batches == UNION { [1..n -> FilePool] : n \in 0..MaxBatch }

\* the characters of the filenames given to get_file_format on its own
NameChars == {"p", "n", "G", "."}
Names == UNION { [1..n -> NameChars] : n \in 0..MaxNameLen }

\* the argument of a Msg::UpdateDimensions sent from outside the component
SomeDimensions == <<"9", "U+00D7", "9", " ", "p", "x">>

(***************************************************************************)
(* State.                                                                  *)
(*   readers, base64_data, modal_open, copy_button_text, image_info:       *)
(*       the fields of struct Model (main.rs:30-36); readers maps a file   *)
(*       name to the upload whose FileReader task it holds                 *)
(*   queue:    the messages sent to the component and not yet handled      *)
(*   uploads:  one record per File handed to the component: the file, the  *)
(*       state of its FileReader (read), the state of the <img> element    *)
(*       that decodes its payload (img); and, for stating properties, the  *)
(*       messages handled for it (events) and the writes of image_info     *)
(*       made for it (writes)                                              *)
(*   completed: the uploads in the order their UpdateImageInfo was handled *)
(*   timers:   the sleep(2000 ms) futures not yet elapsed                  *)
(*   panicked: a callback has panicked; halted: the wasm instance no       *)
(*       longer runs anything                                              *)
(*   call:     an argument and the result of a function run on its own     *)
(*   clipboard: the promise of the latest clipboard.write_text: "none",    *)
(*       "pending", "fulfilled" or "rejected"                              *)
(*   tally:    for stating properties, in SpecCopy: the copies that showed *)
(*       the confirmation, the changes of the label from a confirmation to *)
(*       the default, and whether a copy was made while a timer of an      *)
(*       earlier one was pending                                           *)
(***************************************************************************)
VARIABLES readers, base64_data, modal_open, copy_button_text, image_info,
          queue, uploads, completed, timers, panicked, halted, call,
          clipboard, tally

model == <<readers, base64_data, modal_open, copy_button_text, image_info>>
vars == <<readers, base64_data, modal_open, copy_button_text, image_info,
          queue, uploads, completed, timers, panicked, halted, call,
          clipboard, tally>>

\* nothing copied yet
NoTally == [copies |-> 0, resets |-> 0, reverts |-> 0, overlap |-> FALSE]

Ids == 1..Len(uploads)

\* fn create (main.rs:42-50)
create ==
    /\ readers = <<>>
    /\ base64_data = None
    /\ modal_open = FALSE
    /\ copy_button_text = CopyLabel
    /\ image_info = None

Init ==
    /\ create
    /\ queue = <<>>
    /\ uploads = <<>>
    /\ completed = <<>>
    /\ timers = 0
    /\ panicked = FALSE
    /\ halted = FALSE
    /\ clipboard = "none"
    /\ tally = NoTally
    /\ call = None

\* link.send_message from a browser callback: the scheduler runs the
\* messages already sent before the browser delivers another event
Idle == ~halted /\ queue = <<>>

\* ImageInfo { .. } of a selected file (main.rs:55-66)
NewImageInfo(file) ==
    [format |-> get_file_format(file.name),
     size |-> format_size(Len(file.bytes)),
     dimensions |-> Loading,
     mime_type |-> file.mime,
     aspect_ratio |-> Loading]

\* format, size and MIME type of an ImageInfo, the fields set from the File
Meta(info) == <<info.format, info.size, info.mime_type>>

\* the bookkeeping of a handled message: ups with the message type added to
\* the events of upload u and, when the handler assigned to image_info, a
\* summary of the write added to its writes: kept = format, size and MIME
\* type are as before the write, own = they are those of the file of u,
\* and the dimensions and the aspect ratio after the write
Handled(ups, u, type, wrote) ==
    LET after == image_info'.val
    IN  [ups EXCEPT
            ![u].events = Append(@, type),
            ![u].writes =
                IF wrote
                THEN Append(@, [by |-> type,
                                kept |-> /\ IsSome(image_info)
                                         /\ Meta(image_info.val) = Meta(after),
                                own |-> Meta(after) = Meta(NewImageInfo(ups[u].file)),
                                dimensions |-> after.dimensions,
                                aspect_ratio |-> after.aspect_ratio])
                ELSE @]

(***************************************************************************)
(* The file input and fn update, one action per arm.                       *)
(***************************************************************************)
\* the on_change callback (main.rs:154-167): one File per picked file, all
\* in one Msg::Files
OnChange(batch) ==
    /\ Idle
    /\ Len(uploads) + Len(batch) <= MaxUploads
    /\ uploads' = uploads \o
           [i \in 1..Len(batch) |->
               [file |-> batch[i], read |-> "none", img |-> "none",
                events |-> <<>>, writes |-> <<>>]]
    /\ queue' = <<[type |-> "Files",
                   files |-> [i \in 1..Len(batch) |-> Len(uploads) + i]]>>
    /\ UNCHANGED <<model, completed, timers, panicked, halted, call,
                   clipboard, tally>>

\* Msg::Files (main.rs:108-113)
Files(msg) ==
    /\ queue' = Tail(queue) \o
           [i \in 1..Len(msg.files) |-> [type |-> "FileSelected", file |-> msg.files[i]]]
    /\ UNCHANGED <<model, uploads, completed, timers, panicked, halted, call, clipboard>>

\* a read task that also hands the file to the image decoder
StartReadAndDecode(u) ==
    LET name == uploads[u].file.name
        old == IF name \in DOMAIN readers THEN readers[name] ELSE u
    IN  [i \in Ids |->
            IF i = u THEN [uploads[i] EXCEPT !.read = "reading", !.img = "decoding"]
            ELSE IF i = old /\ uploads[i].read = "reading"
            THEN [uploads[i] EXCEPT !.read = "aborted"]
            ELSE uploads[i]]

\* a start of the read of upload u that cancels every read in flight
StartReadCancelling(u) ==
    [i \in Ids |->
        IF i = u THEN [uploads[i] EXCEPT !.read = "reading"]
        ELSE IF uploads[i].read = "reading"
        THEN [uploads[i] EXCEPT !.read = "aborted"]
        ELSE uploads[i]]

\* read_as_bytes and readers.insert (main.rs:68-76): the read of upload u
\* starts.  insert drops the FileReader the map held under the same name,
\* and dropping a FileReader whose read has not finished aborts the read:
\* its callback is never called.
StartRead(u) ==
    LET name == uploads[u].file.name
        old == IF name \in DOMAIN readers THEN readers[name] ELSE u
    IN  [i \in Ids |->
            IF i = u THEN [uploads[i] EXCEPT !.read = "reading"]
            ELSE IF i = old /\ uploads[i].read = "reading"
            THEN [uploads[i] EXCEPT !.read = "aborted"]
            ELSE uploads[i]]

\* a FileSelected that also drops the payload of the previous file
FileSelectedClearing(msg) ==
    LET u == msg.file
        name == uploads[u].file.name
    IN  /\ image_info' = Some(NewImageInfo(uploads[u].file))
        /\ base64_data' = None
        /\ readers' = [n \in DOMAIN readers \cup {name} |->
                          IF n = name THEN u ELSE readers[n]]
        /\ uploads' = Handled(StartRead(u), u, "FileSelected", TRUE)
        /\ queue' = Tail(queue)
        /\ UNCHANGED <<modal_open, copy_button_text, completed,
                       timers, panicked, halted, call, clipboard>>

\* Msg::FileSelected (main.rs:54-78)
FileSelected(msg) ==
    LET u == msg.file
        name == uploads[u].file.name
    IN  /\ image_info' = Some(NewImageInfo(uploads[u].file))
        /\ readers' = [n \in DOMAIN readers \cup {name} |->
                          IF n = name THEN u ELSE readers[n]]
        /\ uploads' = Handled(StartRead(u), u, "FileSelected", TRUE)
        /\ queue' = Tail(queue)
        /\ UNCHANGED <<base64_data, modal_open, copy_button_text, completed,
                       timers, panicked, halted, call, clipboard>>

\* the callback of read_as_bytes with Ok(bytes) (main.rs:70-74)
ReadLoaded(u) ==
    /\ Idle
    /\ uploads[u].read = "reading"
    /\ uploads' = [uploads EXCEPT ![u].read = "loaded"]
    /\ queue' = <<[type |-> "Loaded", of |-> u,
                   data |-> Base64Encode(uploads[u].file.bytes)]>>
    /\ UNCHANGED <<model, completed, timers, panicked, halted, call,
                   clipboard, tally>>

\* the callback of read_as_bytes with Err(_) (main.rs:70-71): expect panics.
\* On wasm a panic is a trap: the instance may be unusable from then on, or
\* the browser may go on delivering events to it.
ReadFailed(u) ==
    /\ Idle
    /\ uploads[u].read = "reading"
    /\ uploads' = [uploads EXCEPT ![u].read = "error"]
    /\ panicked' = TRUE
    /\ halted' \in BOOLEAN
    /\ UNCHANGED <<model, queue, completed, timers, call,
                   clipboard, tally>>

\* Msg::Loaded (main.rs:79-101): the payload is stored and, when there is an
\* image_info, an <img> with an onload handler is given the data URI
Loaded(msg) ==
    /\ base64_data' = Some(msg.data)
    /\ uploads' = Handled(IF IsSome(image_info)
                          THEN [uploads EXCEPT ![msg.of].img = "decoding"]
                          ELSE uploads,
                          msg.of, "Loaded", FALSE)
    /\ queue' = Tail(queue)
    /\ UNCHANGED <<readers, modal_open, copy_button_text, image_info, completed,
                   timers, panicked, halted, call, clipboard>>

\* the on_load closure (main.rs:84-94): the browser decoded the data URI
ImgLoaded(u) ==
    LET width == uploads[u].file.image.width
        height == uploads[u].file.image.height
        ratio == calculate_aspect_ratio(width, height)
    IN  /\ Idle
        /\ uploads[u].img = "decoding"
        /\ uploads[u].file.image.ok
        /\ uploads' = [uploads EXCEPT ![u].img = "loaded"]
        /\ IF ratio = DivideByZero
           THEN /\ panicked' = TRUE
                /\ halted' \in BOOLEAN
                /\ UNCHANGED queue
           ELSE /\ queue' = <<[type |-> "UpdateImageInfo", of |-> u,
                               dimensions |-> FormatDimensions(width, height),
                               aspect_ratio |-> FormatRatio(ratio)]>>
                /\ UNCHANGED <<panicked, halted>>
        /\ UNCHANGED <<model, completed, timers, call,
                   clipboard, tally>>

\* the browser could not decode the data URI: the <img> gets an error event,
\* for which main.rs:96 sets no handler
ImgFailed(u) ==
    /\ Idle
    /\ uploads[u].img = "decoding"
    /\ ~uploads[u].file.image.ok
    /\ uploads' = [uploads EXCEPT ![u].img = "error"]
    /\ UNCHANGED <<model, queue, completed, timers, panicked, halted, call,
                   clipboard, tally>>

\* Msg::UpdateDimensions (main.rs:102-107)
UpdateDimensions(msg) ==
    /\ image_info' = IF IsSome(image_info)
                     THEN Some([image_info.val EXCEPT !.dimensions = msg.dimensions])
                     ELSE image_info
    /\ queue' = Tail(queue)
    /\ UNCHANGED <<readers, base64_data, modal_open, copy_button_text, uploads,
                   completed, timers, panicked, halted, call, clipboard>>

\* an UpdateImageInfo that builds a fresh ImageInfo around the two strings
UpdateImageInfoFresh(msg) ==
    /\ image_info' = Some([format |-> <<>>, size |-> <<>>, mime_type |-> "",
                           dimensions |-> msg.dimensions,
                           aspect_ratio |-> msg.aspect_ratio])
    /\ uploads' = Handled(uploads, msg.of, "UpdateImageInfo", TRUE)
    /\ completed' = Append(completed, msg.of)
    /\ queue' = Tail(queue)
    /\ UNCHANGED <<readers, base64_data, modal_open, copy_button_text,
                   timers, panicked, halted, call, clipboard>>

\* Msg::UpdateImageInfo (main.rs:143-149)
UpdateImageInfo(msg) ==
    /\ image_info' = IF IsSome(image_info)
                     THEN Some([image_info.val EXCEPT
                                   !.dimensions = msg.dimensions,
                                   !.aspect_ratio = msg.aspect_ratio])
                     ELSE image_info
    /\ uploads' = Handled(uploads, msg.of, "UpdateImageInfo", IsSome(image_info))
    /\ completed' = Append(completed, msg.of)
    /\ queue' = Tail(queue)
    /\ UNCHANGED <<readers, base64_data, modal_open, copy_button_text,
                   timers, panicked, halted, call, clipboard>>

\* Msg::ToggleModal (main.rs:114-117)
ToggleModal(msg) ==
    /\ modal_open' = ~modal_open
    /\ queue' = Tail(queue)
    /\ UNCHANGED <<readers, base64_data, copy_button_text, image_info, uploads,
                   completed, timers, panicked, halted, call, clipboard>>

\* Msg::CopyBase64 without the test of base64_data: an absent payload is
\* copied as the empty text
CopyBase64Always(msg) ==
    /\ clipboard' = "pending"
    /\ copy_button_text' =
           FormatCopied(format_size(IF IsSome(base64_data)
                                    THEN Len(base64_data.val) ELSE 0))
    /\ timers' = timers + 1
    /\ queue' = Tail(queue)
    /\ UNCHANGED <<readers, base64_data, modal_open, image_info, uploads,
                   completed, panicked, halted, call>>

\* Msg::CopyBase64 that shows the confirmation and starts no timer
CopyBase64NoTimer(msg) ==
    /\ IF IsSome(base64_data)
       THEN /\ clipboard' = "pending"
            /\ copy_button_text' = FormatCopied(format_size(Len(base64_data.val)))
       ELSE UNCHANGED <<clipboard, copy_button_text>>
    /\ queue' = Tail(queue)
    /\ UNCHANGED <<readers, base64_data, modal_open, image_info, uploads,
                   completed, timers, panicked, halted, call>>

\* Msg::CopyBase64 (main.rs:118-138): with a payload, the label shows the
\* size of the payload and a 2 s timer starts
CopyBase64(msg) ==
    /\ IF IsSome(base64_data)
       THEN /\ clipboard' = "pending"
            /\ copy_button_text' = FormatCopied(format_size(Len(base64_data.val)))
            /\ timers' = timers + 1
       ELSE UNCHANGED <<clipboard, copy_button_text, timers>>
    /\ queue' = Tail(queue)
    /\ UNCHANGED <<readers, base64_data, modal_open, image_info, uploads,
                   completed, panicked, halted, call>>

\* Msg::ResetCopyButton that leaves the label as it is
ResetCopyButtonKeeping(msg) ==
    /\ queue' = Tail(queue)
    /\ UNCHANGED <<readers, base64_data, modal_open, copy_button_text,
                   image_info, uploads, completed, timers, panicked, halted,
                   call, clipboard>>

\* Msg::ResetCopyButton (main.rs:139-142)
ResetCopyButton(msg) ==
    /\ copy_button_text' = CopyLabel
    /\ queue' = Tail(queue)
    /\ UNCHANGED <<readers, base64_data, modal_open, image_info, uploads,
                   completed, timers, panicked, halted, call, clipboard>>

\* the match of fn update (main.rs:53-150)
Match(msg) ==
    CASE msg.type = "FileSelected" -> FileSelected(msg)
      [] msg.type = "Loaded" -> Loaded(msg)
      [] msg.type = "UpdateDimensions" -> UpdateDimensions(msg)
      [] msg.type = "Files" -> Files(msg)
      [] msg.type = "ToggleModal" -> ToggleModal(msg)
      [] msg.type = "CopyBase64" -> CopyBase64(msg)
      [] msg.type = "ResetCopyButton" -> ResetCopyButton(msg)
      [] msg.type = "UpdateImageInfo" -> UpdateImageInfo(msg)

\* fn update (main.rs:52-151) on the oldest message sent
Update ==
    /\ ~halted
    /\ queue # <<>>
    /\ Match(Head(queue))
    /\ UNCHANGED tally

(***************************************************************************)
(* The buttons of fn view and the timer.                                   *)
(***************************************************************************)
\* a preview button rendered with or without a payload
ClickToggleModalAlways ==
    /\ Idle
    /\ queue' = <<[type |-> "ToggleModal"]>>
    /\ UNCHANGED <<model, uploads, completed, timers, panicked, halted, call,
                   clipboard, tally>>

\* the preview button (main.rs:192-207) and the modal (main.rs:240-252) are
\* rendered only with a payload; a click on either sends ToggleModal
ClickToggleModal ==
    /\ Idle
    /\ IsSome(base64_data)
    /\ queue' = <<[type |-> "ToggleModal"]>>
    /\ UNCHANGED <<model, uploads, completed, timers, panicked, halted, call,
                   clipboard, tally>>

\* the copy button (main.rs:254-277) is rendered only with a payload
ClickCopy ==
    /\ Idle
    /\ IsSome(base64_data)
    /\ timers < MaxTimers
    /\ queue' = <<[type |-> "CopyBase64"]>>
    /\ UNCHANGED <<model, uploads, completed, timers, panicked, halted, call,
                   clipboard, tally>>

\* a sleep of main.rs:131-134 elapses
TimerElapsed ==
    /\ Idle
    /\ timers > 0
    /\ timers' = timers - 1
    /\ queue' = <<[type |-> "ResetCopyButton"]>>
    /\ UNCHANGED <<model, uploads, completed, panicked, halted, call,
                   clipboard, tally>>

\* the promise of clipboard.write_text (main.rs:126) is fulfilled; its
\* result is dropped (main.rs:127)
ClipboardFulfilled ==
    /\ Idle
    /\ clipboard = "pending"
    /\ clipboard' = "fulfilled"
    /\ UNCHANGED <<model, queue, uploads, completed, timers, panicked, halted,
                   call, tally>>

\* the promise of clipboard.write_text (main.rs:126) is rejected: no
\* permission, no focus, no secure context; its result is dropped
\* (main.rs:127)
ClipboardRejected ==
    /\ Idle
    /\ clipboard = "pending"
    /\ clipboard' = "rejected"
    /\ UNCHANGED <<model, queue, uploads, completed, timers, panicked, halted,
                   call, tally>>

Next ==
    \/ \E batch \in Batches : OnChange(batch)
    \/ Update
    \/ \E u \in Ids : ReadLoaded(u)
    \/ \E u \in Ids : ReadFailed(u)
    \/ \E u \in Ids : ImgLoaded(u)
    \/ \E u \in Ids : ImgFailed(u)
    \/ ClickToggleModal
    \/ ClickCopy
    \/ TimerElapsed

Spec == Init /\ [][Next]_vars

(***************************************************************************)
(* update as the entry point it is: besides the messages main.rs sends, a  *)
(* holder of the component's scope sends Msg::UpdateDimensions, which      *)
(* main.rs defines and handles and never sends itself.                     *)
(***************************************************************************)
SendUpdateDimensions ==
    /\ Idle
    /\ queue' = <<[type |-> "UpdateDimensions", dimensions |-> SomeDimensions]>>
    /\ UNCHANGED <<model, uploads, completed, timers, panicked, halted, call,
                   clipboard, tally>>

\* a holder of the component's scope sends Msg::CopyBase64, with or without
\* a payload stored
SendCopyBase64 ==
    /\ Idle
    /\ timers < MaxTimers
    /\ queue' = <<[type |-> "CopyBase64"]>>
    /\ UNCHANGED <<model, uploads, completed, timers, panicked, halted, call,
                   clipboard, tally>>

NextUpdate == Next \/ SendUpdateDimensions \/ SendCopyBase64

SpecUpdate == Init /\ [][NextUpdate]_vars

(***************************************************************************)
(* The copy button looked at closely: the copies, the ResetCopyButton      *)
(* messages and the changes of the label are counted in tally, and the     *)
(* promise of clipboard.write_text is settled.  No field of the component  *)
(* depends on that promise (main.rs:127 drops its result), so Spec leaves  *)
(* it pending.                                                             *)
(***************************************************************************)
OnChangeFew(batch) ==
    /\ Len(uploads) + Len(batch) <= MaxCopyUploads
    /\ OnChange(batch)

ClickCopyTallied ==
    /\ tally.copies < MaxCopies
    /\ ClickCopy

\* fn update (main.rs:52-151) on the oldest message sent, counted
UpdateTallied ==
    /\ ~halted
    /\ queue # <<>>
    /\ Match(Head(queue))
    /\ LET msg == Head(queue)
           shown == /\ msg.type = "CopyBase64"
                    /\ starts_with(copy_button_text', CopiedPrefix)
           reverted == /\ starts_with(copy_button_text, CopiedPrefix)
                       /\ copy_button_text' = CopyLabel
       IN  tally' =
               [copies |-> tally.copies + (IF shown THEN 1 ELSE 0),
                resets |-> tally.resets
                              + (IF msg.type = "ResetCopyButton" THEN 1 ELSE 0),
                reverts |-> tally.reverts + (IF reverted THEN 1 ELSE 0),
                overlap |-> tally.overlap \/ (shown /\ timers > 0)]

NextCopy ==
    \/ \E batch \in Batches : OnChangeFew(batch)
    \/ UpdateTallied
    \/ \E u \in Ids : ReadLoaded(u)
    \/ \E u \in Ids : ReadFailed(u)
    \/ \E u \in Ids : ImgLoaded(u)
    \/ \E u \in Ids : ImgFailed(u)
    \/ ClickToggleModal
    \/ ClickCopyTallied
    \/ TimerElapsed
    \/ ClipboardFulfilled
    \/ ClipboardRejected

SpecCopy == Init /\ [][NextCopy]_vars

(***************************************************************************)
(* get_file_format on its own, on every name of Names.                     *)
(***************************************************************************)
InitFormat ==
    /\ create
    /\ queue = <<>>
    /\ uploads = <<>>
    /\ completed = <<>>
    /\ timers = 0
    /\ panicked = FALSE
    /\ halted = FALSE
    /\ clipboard = "none"
    /\ tally = NoTally
    /\ \E name \in Names : call = Some([filename |-> name, format |-> None])

CallGetFileFormat ==
    /\ IsSome(call)
    /\ ~IsSome(call.val.format)
    /\ call' = Some([call.val EXCEPT !.format = Some(get_file_format(call.val.filename))])
    /\ UNCHANGED <<model, queue, uploads, completed, timers, panicked, halted,
                   clipboard, tally>>

NextFormat == CallGetFileFormat

SpecFormat == InitFormat /\ [][NextFormat]_vars

(***************************************************************************)
(* calculate_aspect_ratio on its own, on every width and height of Dims,   *)
(* the while loop of gcd run one iteration per step.                       *)
(***************************************************************************)
Dims == (0..MaxDim) \cup {1080, 1920}

\* the call calculate_aspect_ratio(width, height) has entered gcd(width,
\* height) (main.rs:312, main.rs:316)
InitRatio ==
    /\ create
    /\ queue = <<>>
    /\ uploads = <<>>
    /\ completed = <<>>
    /\ timers = 0
    /\ panicked = FALSE
    /\ halted = FALSE
    /\ clipboard = "none"
    /\ tally = NoTally
    /\ \E width \in Dims, height \in Dims :
           call = Some([width |-> width, height |-> height,
                        a |-> width, b |-> height, iterations |-> 0,
                        ratio |-> None])

\* one iteration of "while b != 0" (main.rs:317-321)
GcdIterate ==
    /\ IsSome(call)
    /\ ~IsSome(call.val.ratio)
    /\ call.val.b # 0
    /\ call' = Some([call.val EXCEPT !.a = call.val.b,
                                     !.b = call.val.a % call.val.b,
                                     !.iterations = @ + 1])
    /\ UNCHANGED <<model, queue, uploads, completed, timers, panicked, halted,
                   clipboard, tally>>

\* the loop ends, gcd returns a (main.rs:322) and calculate_aspect_ratio
\* divides by it (main.rs:313)
GcdReturn ==
    /\ IsSome(call)
    /\ ~IsSome(call.val.ratio)
    /\ call.val.b = 0
    /\ call' = Some([call.val EXCEPT !.ratio =
                        Some(IF call.val.a = 0 THEN DivideByZero
                             ELSE <<call.val.width \div call.val.a,
                                    call.val.height \div call.val.a>>)])
    /\ UNCHANGED <<model, queue, uploads, completed, timers, panicked, halted,
                   clipboard, tally>>

NextRatio == GcdIterate \/ GcdReturn

SpecRatio == InitRatio /\ [][NextRatio]_vars

(***************************************************************************)
(* format_size on its own, on the sizes high * 1024 + low: below, at and   *)
(* above 1024, 1024^2, 1024^3 and 1024^4.                                  *)
(***************************************************************************)
SizesHigh ==
    {0, 1, 2, 1023, 1024, 1025, 1048575, 1048576, 1048577,
     1073741823, 1073741824, 2147483647}
SizesLow == {0, 1, 511, 512, 1023}

InitSize ==
    /\ create
    /\ queue = <<>>
    /\ uploads = <<>>
    /\ completed = <<>>
    /\ timers = 0
    /\ panicked = FALSE
    /\ halted = FALSE
    /\ clipboard = "none"
    /\ tally = NoTally
    /\ \E high \in SizesHigh, low \in SizesLow :
           call = Some([high |-> high, low |-> low, text |-> None])

CallFormatSize ==
    /\ IsSome(call)
    /\ ~IsSome(call.val.text)
    /\ call' = Some([call.val EXCEPT
                        !.text = Some(format_size_parts(call.val.high, call.val.low))])
    /\ UNCHANGED <<model, queue, uploads, completed, timers, panicked, halted,
                   clipboard, tally>>

NextSize == CallFormatSize

SpecSize == InitSize /\ [][NextSize]_vars

(***************************************************************************)
(* Properties.                                                             *)
(***************************************************************************)
\* message type was handled for upload u
Did(u, type) == \E i \in 1..Len(uploads[u].events) : uploads[u].events[i] = type

\* the place of the message type among the messages handled for upload u
Pos(u, type) == CHOOSE i \in 1..Len(uploads[u].events) : uploads[u].events[i] = type

\* a message sent for upload u waits in the queue
Queued(u) ==
    \E i \in 1..Len(queue) :
        \/ queue[i].type \in {"Loaded", "UpdateImageInfo"} /\ queue[i].of = u
        \/ queue[i].type = "FileSelected" /\ queue[i].file = u
        \/ queue[i].type = "Files" /\ \E j \in 1..Len(queue[i].files) : queue[i].files[j] = u

\* something is still to happen for upload u: a message, the end of its
\* read or the end of its decode
InFlight(u) ==
    \/ Queued(u)
    \/ uploads[u].read = "reading"
    \/ uploads[u].img = "decoding"

MetaOf(u) == Meta(NewImageInfo(uploads[u].file))
PayloadOf(u) == Base64Encode(uploads[u].file.bytes)
DimensionsOf(u) ==
    FormatDimensions(uploads[u].file.image.width, uploads[u].file.image.height)
RatioOf(u) ==
    FormatRatio(calculate_aspect_ratio(uploads[u].file.image.width,
                                       uploads[u].file.image.height))

\* the uploads whose FileSelected was handled; the latest has the largest id
Selected == {u \in Ids : Did(u, "FileSelected")}
LatestSelected == CHOOSE u \in Selected : \A v \in Selected : v <= u

\* C1: the decode of an upload starts, and its UpdateImageInfo is sent and
\* handled, only after its read completed and its Loaded was handled, which
\* stored a payload
C1_DecodeAfterLoaded ==
    \A u \in Ids :
        /\ (uploads[u].img # "none" \/ Did(u, "UpdateImageInfo")
                \/ \E i \in 1..Len(queue) :
                       queue[i].type = "UpdateImageInfo" /\ queue[i].of = u)
           => /\ uploads[u].read = "loaded"
              /\ Did(u, "Loaded")
              /\ IsSome(base64_data)
        /\ Did(u, "UpdateImageInfo") => Pos(u, "Loaded") < Pos(u, "UpdateImageInfo")

C1_Witness ==
    \E u \in Ids :
        uploads[u].events = <<"FileSelected", "Loaded", "UpdateImageInfo">>

\* C2: format, size and MIME type are those of the most recently selected
\* file, and dimensions and aspect ratio are the placeholder for as long as
\* the decode of that file has not resolved
C2_LatestSelectionShown ==
    Selected # {} =>
        /\ IsSome(image_info)
        /\ Meta(image_info.val) = MetaOf(LatestSelected)
        /\ ~Did(LatestSelected, "UpdateImageInfo")
           => /\ image_info.val.dimensions = Loading
              /\ image_info.val.aspect_ratio = Loading

\* C3: when several files were selected and every pipeline has completed,
\* payload, format, size, MIME type, dimensions and aspect ratio are all
\* those of the file whose pipeline completed last
C3_LastWriterWins ==
    (Len(uploads) >= 2 /\ \A u \in Ids : Did(u, "UpdateImageInfo")) =>
        LET w == completed[Len(completed)]
        IN  /\ base64_data = Some(PayloadOf(w))
            /\ Meta(image_info.val) = MetaOf(w)
            /\ image_info.val.dimensions = DimensionsOf(w)
            /\ image_info.val.aspect_ratio = RatioOf(w)

\* C4: an upload of a decodable file whose read did not fail, and for which
\* nothing is in flight any more, went through Selected, BytesRead and
\* MetadataReady, whatever the other uploads did
C4_EveryGoodFileCompletes ==
    \A u \in Ids :
        (~InFlight(u) /\ uploads[u].file.image.ok /\ uploads[u].read # "error")
        => uploads[u].events = <<"FileSelected", "Loaded", "UpdateImageInfo">>

\* C5: an upload writes the metadata record at most twice: at FileSelected,
\* with the format, size and MIME type of its file and both placeholders;
\* and at UpdateImageInfo, with its dimensions and aspect ratio, format,
\* size and MIME type staying as they were.  A completed upload has made
\* exactly these two writes, in this order.
C5_TwoMetadataUpdates ==
    \A u \in Ids :
        LET w == uploads[u].writes
        IN  /\ Len(w) = (IF Did(u, "UpdateImageInfo") THEN 2
                         ELSE IF Did(u, "FileSelected") THEN 1 ELSE 0)
            /\ Len(w) >= 1 =>
                   /\ w[1].by = "FileSelected"
                   /\ w[1].own
                   /\ w[1].dimensions = Loading
                   /\ w[1].aspect_ratio = Loading
            /\ Len(w) >= 2 =>
                   /\ w[2].by = "UpdateImageInfo"
                   /\ w[2].kept
                   /\ w[2].dimensions = DimensionsOf(u)
                   /\ w[2].aspect_ratio = RatioOf(u)

C5_Witness ==
    \E u, v \in Ids :
        /\ u # v
        /\ Len(uploads[u].writes) = 2
        /\ Did(v, "FileSelected")

\* C6: once the decode of the only upload has failed and nothing is in
\* flight for it, dimensions and aspect ratio are no longer the placeholder
C6_DecodeFailureSurfaced ==
    \A u \in Ids :
        (Len(uploads) = 1 /\ uploads[u].img = "error" /\ ~InFlight(u))
        => /\ image_info.val.dimensions # Loading
           /\ image_info.val.aspect_ratio # Loading

\* C7: a failed read or a failed decode of an upload never makes the
\* program panic or stop
C7_FailureNotFatal ==
    (\E u \in Ids : uploads[u].read = "error" \/ uploads[u].img = "error")
    => ~panicked /\ ~halted

\* C8: a step changes the payload only by handling a Loaded, which stores
\* the whole payload of the file that was read, and a payload that is
\* present stays present
C8_PayloadOnlyReplacedByLoaded ==
    [][/\ base64_data' # base64_data
          => /\ queue # <<>>
             /\ Head(queue).type = "Loaded"
             /\ base64_data' = Some(Head(queue).data)
             /\ base64_data' = Some(PayloadOf(Head(queue).of))
       /\ IsSome(base64_data) => IsSome(base64_data')]_vars

C8_Witness ==
    /\ \E u, v \in Ids :
           /\ u # v
           /\ Did(u, "Loaded") /\ Did(v, "UpdateImageInfo")
           /\ base64_data = Some(PayloadOf(u))
           /\ PayloadOf(v) # PayloadOf(u)
    /\ modal_open
    /\ copy_button_text = CopyLabel
    /\ timers = 1
    /\ image_info.val.dimensions = SomeDimensions

\* the characters of a string
Chars(s) == {s[i] : i \in 1..Len(s)}

\* C9: for a filename without '.', the empty one included, get_file_format
\* returns the "unknown" sentinel
C9_NoDotIsUnknown ==
    (IsSome(call) /\ IsSome(call.val.format) /\ "." \notin Chars(call.val.filename))
    => call.val.format.val = Unknown

\* the upper-case forms of the characters of Names
UpperOf(c) == CASE c = "p" -> "P" [] c = "n" -> "N" [] OTHER -> c

\* C10: for a filename with a '.', get_file_format returns what follows the
\* last '.', in upper case
C10_ExtensionUpperCased ==
    (IsSome(call) /\ IsSome(call.val.format) /\ "." \in Chars(call.val.filename))
    => LET name == call.val.filename
           dot == CHOOSE i \in 1..Len(name) :
                      name[i] = "." /\ \A j \in (i + 1)..Len(name) : name[j] # "."
       IN  call.val.format.val = [i \in 1..(Len(name) - dot) |-> UpperOf(name[dot + i])]

C10_Witness ==
    /\ IsSome(call)
    /\ call.val.filename = <<".", "n", "p">>
    /\ call.val.format = Some(<<"N", "P">>)

\* the common divisors of two numbers, by definition
CommonDivisors(m, n) == {d \in 1..(IF m > n THEN m ELSE n) : m % d = 0 /\ n % d = 0}
GreatestCommonDivisor(m, n) ==
    CHOOSE d \in CommonDivisors(m, n) : \A e \in CommonDivisors(m, n) : e <= d

\* C11: for positive width and height the loop of gcd ends (b decreases at
\* every iteration, so there are at most height of them), and
\* calculate_aspect_ratio returns (width / g, height / g) for g the greatest
\* common divisor: a coprime pair with width * result.1 = height * result.0
C11_AspectRatioReduced ==
    (IsSome(call) /\ "ratio" \in DOMAIN call.val
        /\ call.val.width > 0 /\ call.val.height > 0)
    => LET c == call.val
           g == GreatestCommonDivisor(c.width, c.height)
       IN  /\ c.b + c.iterations <= c.height
           /\ gcd(c.a, c.b) = g
           /\ IsSome(c.ratio) =>
                  /\ c.ratio.val = calculate_aspect_ratio(c.width, c.height)
                  /\ c.ratio.val = <<c.width \div g, c.height \div g>>
                  /\ CommonDivisors(c.ratio.val[1], c.ratio.val[2]) = {1}
                  /\ c.width * c.ratio.val[2] = c.height * c.ratio.val[1]

C11_Witness ==
    /\ IsSome(call)
    /\ "ratio" \in DOMAIN call.val
    /\ call.val.width = 1920
    /\ call.val.height = 1080
    /\ call.val.iterations = 4
    /\ call.val.ratio = Some(<<16, 9>>)

\* C12: with a width or a height of 0, both 0 included,
\* calculate_aspect_ratio does not divide by zero and returns the pair
\* (width, height) as it is
C12_ZeroSideUnreduced ==
    (IsSome(call) /\ "ratio" \in DOMAIN call.val /\ IsSome(call.val.ratio)
        /\ (call.val.width = 0 \/ call.val.height = 0))
    => /\ call.val.ratio.val # DivideByZero
       /\ call.val.ratio.val = <<call.val.width, call.val.height>>

\* the largest k with 1024^k <= high * 1024 + low, for a size of at least 1
Magnitude(high, low) ==
    IF high = 0 THEN 0
    ELSE IF high < 1024 THEN 1
    ELSE IF high < 1024 * 1024 THEN 2
    ELSE IF high < 1024 * 1024 * 1024 THEN 3
    ELSE 4

\* C13: format_size(n) ends with the unit of index min(3, k), k the largest
\* integer with 1024^k <= n: GB for every n >= 1024^3, also from 1024 GB on;
\* in the B tier (n < 1024) the number printed is n itself
C13_UnitOfMagnitude ==
    (IsSome(call) /\ "text" \in DOMAIN call.val /\ IsSome(call.val.text))
    => LET c == call.val
           k == Magnitude(c.high, c.low)
           index == IF k < 3 THEN k ELSE 3
           parts == split(c.text.val, " ")
       IN  /\ Len(parts) = 2
           /\ parts[2] = UNITS[index + 1]
           /\ k >= 3 => parts[2] = <<"G", "B">>
           /\ k = 0 => parts[1] = Decimal(c.low)
           /\ c.high < 1024 * 1024 =>
                  c.text.val = format_size(c.high * 1024 + c.low)

C13_Witness ==
    /\ IsSome(call)
    /\ "text" \in DOMAIN call.val
    /\ call.val.high = 1073741824
    /\ call.val.low = 512
    /\ call.val.text = Some(<<"1", "0", "2", "4", ".", "0", "0", " ", "G", "B">>)

\* the ResetCopyButton messages sent and not yet handled
ResetsQueued == Cardinality({i \in 1..Len(queue) : queue[i].type = "ResetCopyButton"})

\* no timer is pending and no message of the copy button waits
CopySettled ==
    /\ timers = 0
    /\ \A i \in 1..Len(queue) : queue[i].type \notin {"CopyBase64", "ResetCopyButton"}

\* C14: every CopyBase64 that showed the confirmation started one timer and
\* every timer sends one ResetCopyButton: the copies shown are the resets
\* handled, those waiting and the timers pending; so once every timer has
\* fired and its message is handled, the label is the default one
C14_EveryCopyResets ==
    /\ tally.copies = tally.resets + ResetsQueued + timers
    /\ CopySettled => copy_button_text = CopyLabel

C14_Witness ==
    /\ tally.copies = 2
    /\ tally.resets = 2
    /\ CopySettled
    /\ copy_button_text = CopyLabel

\* the label is the default one, or the prefix, one space and the formatted
\* size of a payload
WellFormedLabel ==
    \/ copy_button_text = CopyLabel
    \/ \E u \in Ids :
           copy_button_text =
               CopiedPrefix \o <<" ">> \o format_size(Len(PayloadOf(u)))

\* C15: with two copies, the second made while the timer of the first is
\* pending, the label changes from the confirmation to the default once
\* over the whole run: never twice, and once when both timers have fired;
\* and the label is always the default or a well-formed confirmation
C15_TwoCopiesOneRevert ==
    /\ WellFormedLabel
    /\ (tally.copies = 2 /\ tally.overlap) =>
           /\ tally.reverts <= 1
           /\ CopySettled => tally.reverts = 1

C15_Witness ==
    /\ tally.copies = 2
    /\ tally.overlap
    /\ tally.resets = 2
    /\ tally.reverts = 1
    /\ CopySettled

\* C16: when the clipboard write of a copy failed, the button does not show
\* the confirmation for that copy
C16_NoFalseConfirmation ==
    clipboard = "rejected" => ~starts_with(copy_button_text, CopiedPrefix)

\* the message that a step of update handles
Handling(type) == queue # <<>> /\ Head(queue).type = type

\* C17: the selection of a file does not cancel the read of an earlier file
\* with another name, and no decode is ever cancelled; the Loaded and the
\* UpdateImageInfo of any upload, the latest selected or not, are applied
\* when they arrive: Loaded stores its payload, UpdateImageInfo writes its
\* dimensions and ratio into the record shown and keeps the other fields
C17_StaleResultsApplied ==
    [][/\ \A u \in Ids :
              (uploads[u].read = "reading" /\ uploads'[u].read = "aborted")
              => /\ Handling("FileSelected")
                 /\ uploads[Head(queue).file].file.name = uploads[u].file.name
       /\ \A u \in Ids :
              uploads[u].img = "decoding"
              => uploads'[u].img \in {"decoding", "loaded", "error"}
       /\ Handling("Loaded")
              => base64_data' = Some(PayloadOf(Head(queue).of))
       /\ (Handling("UpdateImageInfo") /\ IsSome(image_info))
              => /\ IsSome(image_info')
                 /\ image_info'.val.dimensions = DimensionsOf(Head(queue).of)
                 /\ image_info'.val.aspect_ratio = RatioOf(Head(queue).of)
                 /\ Meta(image_info'.val) = Meta(image_info.val)
      ]_vars

\* a file was selected after another of a different name and was read and
\* decoded first; the payload, the dimensions and the ratio shown are those
\* of the earlier file, under the format, size and MIME type of the later
C17_Witness ==
    \E u \in Ids, v \in Ids :
        /\ u < v
        /\ uploads[u].file.name # uploads[v].file.name
        /\ completed = <<v, u>>
        /\ uploads[u].read = "loaded"
        /\ IsSome(image_info)
        /\ Meta(image_info.val) = MetaOf(v)
        /\ image_info.val.dimensions = DimensionsOf(u)
        /\ image_info.val.dimensions # DimensionsOf(v)
        /\ image_info.val.aspect_ratio = RatioOf(u)
        /\ base64_data = Some(PayloadOf(u))
        /\ PayloadOf(u) # PayloadOf(v)

\* let parts: Vec<&str> = self.copy_button_text.splitn(2, ' ').collect()
\* (main.rs:264)
LabelParts == splitn(copy_button_text, " ")

\* C18: the label of the copy button is always the default one or the
\* prefix, one space and the formatted size of a payload, so the two-way
\* split of a confirmation in the view has a second part, which is not
\* empty; and a CopyBase64 handled with no payload stored changes nothing
\* (the message leaves the queue) and starts no timer
C18_LabelSplitsInTwo ==
    [][/\ WellFormedLabel'
       /\ starts_with(copy_button_text', CopiedPrefix)
              => /\ Len(LabelParts') = 2
                 /\ LabelParts'[1] = CopiedPrefix
                 /\ LabelParts'[2] # <<>>
       /\ (Handling("CopyBase64") /\ ~IsSome(base64_data))
              => /\ queue' = Tail(queue)
                 /\ UNCHANGED <<model, uploads, completed, timers, panicked,
                                halted, call, clipboard, tally>>
      ]_vars

C18_Witness ==
    /\ starts_with(copy_button_text, CopiedPrefix)
    /\ LabelParts = <<CopiedPrefix, <<"4", " ", "B">>>>
    /\ timers = 2

\* C19: through the user interface the modal is open only with a payload
\* stored: a ToggleModal is handled only with a payload, it flips modal_open
\* and changes nothing else, and a payload once stored never becomes absent
C19_ModalNeedsPayload ==
    [][/\ modal_open' => IsSome(base64_data')
       /\ IsSome(base64_data) => IsSome(base64_data')
       /\ Handling("ToggleModal")
              => /\ IsSome(base64_data)
                 /\ modal_open' = ~modal_open
                 /\ queue' = Tail(queue)
                 /\ UNCHANGED <<readers, base64_data, copy_button_text,
                                image_info, uploads, completed, timers,
                                panicked, halted, call, clipboard, tally>>
      ]_vars

\* the modal is open over the payload of the second of two files
C19_Witness ==
    /\ modal_open
    /\ IsSome(base64_data)
    /\ Len(uploads) = 2
    /\ base64_data = Some(PayloadOf(2))

====
